---- MODULE Spec2Model ----
(***************************************************************************)
(* A model of the turn-evaluation pipeline of anysd                        *)
(* (src/src/anysd/main.py): the path normaliser, the tree walk, the        *)
(* FormFlow state machine, the session-record writes and the response      *)
(* formatting of NavigationController.navigate.                            *)
(*                                                                         *)
(* Strings that the code slices or formats (responses, menus) are          *)
(* sequences of text pieces: the first piece of every prompt is its        *)
(* four-character frame "CON " or "END ", and a piece "{...}" is a         *)
(* replacement field of str.format.  Values held in the redis hash are     *)
(* strings; a missing hash field is the empty sequence, a present one a    *)
(* one-element sequence.                                                   *)
(***************************************************************************)
EXTENDS Integers, Sequences, FiniteSets, TLC

VARIABLES
    store,      \* the redis hash "{msisdn}:{session_id}"
    lang,       \* what get_language() returns: PyNone when translation is off
    turn,       \* what the last call of navigate() read, did and returned
    cursor,     \* the node rendered by the last _menu() that ran to its end
    turns,      \* number of navigate() calls so far in the session
    npath,      \* normaliser harness: the token list handed to _path_process
    nout,       \* normaliser harness: the results computed from npath
    nphase,     \* normaliser harness: "input", "done" or "off"
    tree_nodes, \* the attributes get_menu writes on the NavigationMenu nodes
    workers,    \* concurrent turns: each worker's get_menu call and position
    walk,       \* walker harness: a start node, a token list and where it leads
    patch,      \* patch harness: a record, a state patch and the record after it
    build,      \* tree construction harness: the NavigationMenu nodes built so far
    iso,        \* isolation harness: the redis hashes of several sessions, and each session run alone
    ussd,       \* ussd_string harness: two turns on one record whose ussd_strings differ
    off         \* offset harness: a session driven with offset k beside one driven with offset 0

vars == <<store, lang, turn, cursor, turns, npath, nout, nphase, tree_nodes, workers,
          walk, patch, build, iso, ussd, off>>

-----------------------------------------------------------------------------
(* Bounds of the model.                                                    *)

\* longest token list handed to the normaliser harness
NormMaxLen == 4

\* number of navigate() calls explored in one session
MaxTurns == 4

\* number of NavigationMenu nodes the construction harness builds
MaxNodes == 4

\* number of navigate() calls explored with a ConditionalFlow as home_menu
CondMaxTurns == 3

\* number of navigate() calls explored over the sessions of the isolation
\* harness together
IsoMaxTurns == 3

\* number of '*'-separated tokens of a ussd_string
UssdMaxLen == 2

\* number of navigate() calls explored in the ussd_string harness
UssdMaxTurns == 2

\* largest offset handed to navigate() in the offset harness
OffsetMax == 2

\* number of navigate() calls explored after the shortcode tokens
OffMaxTurns == 2

-----------------------------------------------------------------------------
(* Configuration and small Python values.                                  *)

back_symbol == "0"

home_symbol == "00"

\* Python's None where the code passes it in place of a string
PyNone == "<None>"

Absent == <<>>

Some(v) == <<v>>

NatStr == <<"0", "1", "2", "3", "4", "5", "6", "7", "8", "9">>

\* str(i) for the small integers of the model
IntStr(i) == IF i < 0 THEN "-" \o NatStr[1 - i] ELSE NatStr[i + 1]

IntRange == (0 - 9) .. 9

\* the strings int() accepts, with their values ("00" parses to 0)
IntTable == [s \in {IntStr(i) : i \in IntRange} \cup {"00"} |->
                IF s = "00" THEN 0 ELSE CHOOSE i \in IntRange : IntStr(i) = s]

\* int(s) succeeds
IsIntStr(s) == s \in DOMAIN IntTable

\* int(s)
StrInt(s) == IntTable[s]

\* json.dumps of a str
JsonDumpsStr(s) == "\"" \o s \o "\""

\* the last "*"-separated token of ussd_string: nothing, back, home, a
\* choice, or free text
Inputs == {"", back_symbol, home_symbol, "1", "2", "x"}

\* what step_validator may add to the state patch: nothing (0), or
\* {"FORM_STEP": j}
Extras == {0, 1, 2}

-----------------------------------------------------------------------------
(* NavigationController._path_process: folding back and home tokens.       *)
(* Python indices are 0-based: path[index] is path[index + 1] here.        *)

\* list.pop(i) for 0 <= i < len(list): the list without its element i
Pop(path, i) == SubSeq(path, 1, i) \o SubSeq(path, i + 2, Len(path))

RECURSIVE PathProcessRec(_, _)
PathProcessRec(path, index) ==
    IF path # <<>> /\ path[1] \in {back_symbol, home_symbol} THEN <<>>
    ELSE IF Len(path) = 1 THEN path
    ELSE IF index + 1 > Len(path) THEN path
    ELSE IF path[index + 1] = back_symbol THEN
        \* path.pop(index); path.pop(index - 1)
        LET popped == Pop(Pop(path, index), index - 1)
        IN  IF Len(popped) > index - 1
            THEN PathProcessRec(popped, index - 1)
            ELSE popped
    ELSE IF path[index + 1] = home_symbol THEN
        \* for i in range(index + 1): path.pop(0)
        LET rest == SubSeq(path, index + 2, Len(path))
        IN  IF Len(rest) > 1 THEN PathProcessRec(rest, 1) ELSE rest
    ELSE PathProcessRec(path, index + 1)

\* a mutant of _path_process: back and home tokens are not folded
PathProcessKeepsTokens(path_as_list, index) == path_as_list

_path_process(path_as_list, index) == PathProcessRec(path_as_list, index)

\* path_processor(path, index=1, offset): normalise, then drop offset tokens
path_processor(path_as_list, offset) ==
    LET processed_path == _path_process(path_as_list, 1)
    IN  IF Len(processed_path) >= offset
        THEN SubSeq(processed_path, offset + 1, Len(processed_path))
        ELSE processed_path

-----------------------------------------------------------------------------
(* The normaliser on its own: every token list up to NormMaxLen.           *)

NormTokens == {back_symbol, home_symbol, "1", "2"}

RECURSIVE SeqsUpTo(_, _)
SeqsUpTo(S, n) ==
    IF n = 0 THEN {<<>>}
    ELSE LET shorter == SeqsUpTo(S, n - 1)
         IN  shorter \cup {Append(q, t) : q \in {r \in shorter : Len(r) = n - 1}, t \in S}

NoResults == [once |-> <<>>, twice |-> <<>>, with_back |-> <<>>, with_home |-> <<>>]

\* list[:-1]
DropLast(path) == SubSeq(path, 1, Len(path) - 1)

-----------------------------------------------------------------------------
(* The navigation tree and its forms: the tree of the specification's      *)
(* scenarios (root R with Sales and Support, Sales leading to a form of    *)
(* three steps), with a second menu level under Support.                   *)

\* NavigationMenu nodes by name: title, parent, children, next_form
Tree ==
    [r       |-> [title |-> "R", parent |-> "none",
                  children |-> <<"sales", "support">>, next_form |-> "none"],
     sales   |-> [title |-> "Sales", parent |-> "r",
                  children |-> <<>>, next_form |-> "F"],
     support |-> [title |-> "Support", parent |-> "r",
                  children |-> <<"ticket">>, next_form |-> "none"],
     ticket  |-> [title |-> "Ticket", parent |-> "support",
                  children |-> <<>>, next_form |-> "G"]]

home_menu == "r"

\* len(self.children) == 0
IsLeaf(node) == Len(Tree[node].children) = 0

\* f"{self.name}".upper()
Upper == [r |-> "R", sales |-> "SALES", support |-> "SUPPORT", ticket |-> "TICKET"]

NoItems == <<>>

\* the items of the three ListInput steps: what get_items displays, whether
\* the item is a dict, the item when it is a str, and json.dumps(item)
Planets ==
    <<[display |-> "Sun", structured |-> FALSE, raw |-> "Sun",
       json |-> JsonDumpsStr("Sun")],
      [display |-> "Moon", structured |-> FALSE, raw |-> "Moon",
       json |-> JsonDumpsStr("Moon")]>>

Kinds ==
    <<[display |-> "Bug", structured |-> TRUE, raw |-> "",
       json |-> "{\"label\": \"Bug\"}"],
      [display |-> "Idea", structured |-> TRUE, raw |-> "",
       json |-> "{\"label\": \"Idea\"}"]>>

Levels ==
    <<[display |-> "Low", structured |-> FALSE, raw |-> "Low",
       json |-> JsonDumpsStr("Low")],
      [display |-> "High", structured |-> FALSE, raw |-> "High",
       json |-> JsonDumpsStr("High")]>>

\* FormFlow.form_questions, key "k" being element k
Forms ==
    [F |-> <<[name |-> "Name", kind |-> "str", menu |-> <<"CON ", "Name?">>,
              title |-> "", items |-> NoItems, post_call |-> TRUE],
             [name |-> "Planet", kind |-> "ListInput", menu |-> <<>>,
              title |-> "Choose:", items |-> Planets, post_call |-> FALSE],
             [name |-> "Bye", kind |-> "str", menu |-> <<"END ", "Thanks ", "{Name}">>,
              title |-> "", items |-> NoItems, post_call |-> FALSE]>>,
     G |-> <<[name |-> "Kind", kind |-> "ListInput", menu |-> <<>>,
              title |-> "Kind:", items |-> Kinds, post_call |-> FALSE],
             [name |-> "Level", kind |-> "ListInput", menu |-> <<>>,
              title |-> "Level:", items |-> Levels, post_call |-> FALSE]>>]

FormNames == {"F", "G"}

\* FormFlow.gather_form_keys, over both forms
FieldNames == UNION {{Forms[f][k].name : k \in 1..Len(Forms[f])} : f \in FormNames}

\* f'{_field_name}_VALUE'
ValueName(name) == name \o "_VALUE"

Reserved == {"FORM_STEP", "PROCESSED_PATH", "LAST_SUCCESS_RESPONSE",
             "USSD_VALID_LAST_INPUT", "USSD_RESPONSE_MENU_NAME"}

Fields == Reserved \cup FieldNames \cup {ValueName(n) : n \in FieldNames}

\* _field_name.replace("_", "").isalnum() and not _field_name[0].isnumeric()
LegalName(name) == name \in FieldNames

-----------------------------------------------------------------------------
(* The session record: r.hget, r.hset, r.hdel on one hash.                 *)

EmptyStore == [f \in Fields |-> Absent]

hget(st, var) == st[var]

hset(st, var, value) == [st EXCEPT ![var] = Some(value)]

\* json.dumps of a list of str, as the list of its JSON string literals
json_dumps_path(path) == [i \in 1..Len(path) |-> JsonDumpsStr(path[i])]

Unquote == [q \in {JsonDumpsStr(t) : t \in Inputs} |->
               CHOOSE t \in Inputs : JsonDumpsStr(t) = q]

\* json.loads of what json_dumps_path wrote
json_loads_path(text) == [i \in 1..Len(text) |-> Unquote[text[i]]]

\* a state patch (_state): a dict from field names to typed values
EmptyPatch == <<>>

PNone == [t |-> "None"]

PStr(s) == [t |-> "str", s |-> s]

PInt(i) == [t |-> "int", i |-> i]

\* a dict, list or tuple, by its JSON text
PJson(js) == [t |-> "dict", js |-> js]

\* a float or bytes value, by the text redis holds for it
PFloat(s) == [t |-> "float", s |-> s]

PBytes(s) == [t |-> "bytes", s |-> s]

\* a value whose type _redis_processing does not save (bool, set, ...)
PBool == [t |-> "bool"]

\* a dict that json.dumps refuses (its values are not serialisable)
PUnencodable == [t |-> "dict without JSON"]

\* _state[key] = value
Upd(state, key, value) ==
    [k \in (DOMAIN state) \cup {key} |-> IF k = key THEN value ELSE state[k]]

\* a mutant of lines 617-620: no hdel for the keys mapped to None
RedisProcessingKeepsNulls(st, state) ==
    [f \in Fields |->
        IF f \notin DOMAIN state THEN st[f]
        ELSE IF state[f].t \in {"str", "float", "bytes"} THEN Some(state[f].s)
        ELSE IF state[f].t = "int" THEN Some(IntStr(state[f].i))
        ELSE IF state[f].t = "dict" THEN Some(state[f].js)
        ELSE st[f]]

\* NavigationController._redis_processing: hdel of the keys mapped to None
\* (lines 617-620), hset of str, int, bytes and float values (624-625) and
\* of json.dumps of dict, tuple and list values (626-628); a value
\* json.dumps refuses (629-631) or of another type (632-633) is logged and
\* not written
_redis_processing(st, state) ==
    [f \in Fields |->
        IF f \notin DOMAIN state THEN st[f]
        ELSE IF state[f].t = "None" THEN Absent
        ELSE IF state[f].t \in {"str", "float", "bytes"} THEN Some(state[f].s)
        ELSE IF state[f].t = "int" THEN Some(IntStr(state[f].i))
        ELSE IF state[f].t = "dict" THEN Some(state[f].js)
        ELSE st[f]]

\* NavigationController.get_processed_path
get_processed_path(st) ==
    IF hget(st, "PROCESSED_PATH") = Absent THEN <<>>
    ELSE json_loads_path(hget(st, "PROCESSED_PATH")[1])

-----------------------------------------------------------------------------
(* ListInput.                                                              *)

\* "\n".join(lines), each line one piece
RECURSIVE JoinLines(_)
JoinLines(lines) ==
    IF Len(lines) = 0 THEN <<>>
    ELSE IF Len(lines) = 1 THEN lines
    ELSE <<lines[1], "\n">> \o JoinLines(Tail(lines))

\* ListInput.get_items for a static, non-empty list and no extra
get_items(q) ==
    <<"CON ", q.title, "\n">>
        \o JoinLines([i \in 1..Len(q.items) |-> IntStr(i) \o ". " \o q.items[i].display])

\* a mutant of ListInput.validate: range(1, 2) in place of
\* range(1, len(items_list) + 1)
ListInputValidateFirstOnly(items, key) ==
    IF key = PyNone THEN FALSE
    ELSE IF ~IsIntStr(key) THEN FALSE
    ELSE StrInt(key) = 1

\* ListInput.validate
ListInput_validate(items, key) ==
    IF key = PyNone THEN FALSE
    ELSE IF ~IsIntStr(key) THEN FALSE
    ELSE StrInt(key) \in 1..Len(items)

\* text[4:] of a prompt: its frame is its first piece
Strip4(text) == IF text = <<>> THEN <<>> ELSE Tail(text)

\* FormFlow.get_invalid_input: "CON Invalid input\n{menu}".format(menu=menu)
get_invalid_input(menu) == <<"CON ", "Invalid input\n">> \o menu

-----------------------------------------------------------------------------
(* FormFlow._response / get_response.  v and x are what step_validator     *)
(* returns for this call: its verdict and its extra data.  The result      *)
(* carries the exception that left the method ("none" when it returned),   *)
(* the session record after the method's own set_var writes, and what was  *)
(* called on the way.                                                      *)

FormResult(exc, resp, state, valid, st, verdict, captured, post) ==
    [exc |-> exc, resp |-> resp, state |-> state, valid |-> valid, store |-> st,
     verdict |-> verdict, captured |-> captured, post_called |-> post]

\* lines 289-294: the step increment
NextFormStep(state, current_step, last_input) ==
    IF "FORM_STEP" \notin DOMAIN state \/ last_input = back_symbol
    THEN Upd(state, "FORM_STEP", PInt(current_step + 1))
    ELSE state

FormFlow_response(form, step, last_input, v, x, st) ==
    LET fq == Forms[form]
        Declared(k) == k \in 1..Len(fq)
        is_back == last_input = back_symbol
        \* lines 192-196
        current_step == IF is_back THEN step - 2 ELSE step
        state0 == IF is_back THEN Upd(EmptyPatch, "FORM_STEP", PInt(current_step))
                  ELSE EmptyPatch
        \* lines 198-232
        is_list == Declared(current_step) /\ fq[current_step].kind = "ListInput"
        valid_last_input ==
            IF is_back THEN TRUE
            ELSE IF is_list
                 THEN ListInput_validate(fq[current_step].items, last_input)
                 ELSE v
        state1 == IF is_back \/ x = 0 THEN state0
                  ELSE Upd(state0, "FORM_STEP", PInt(x))
        verdict == IF is_back THEN "None"
                   ELSE IF valid_last_input THEN "True" ELSE "False"
        \* lines 236-237
        state2 == Upd(state1, "USSD_VALID_LAST_INPUT", PInt(1))
        captures == last_input \notin {back_symbol, home_symbol} /\ current_step # 0
        capturing == captures /\ Declared(current_step)
                        /\ LegalName(fq[current_step].name)
        name == fq[current_step].name
        item == fq[current_step].items[StrInt(last_input)]
        \* lines 253-256 and 259-262: set_var
        store3 ==
            IF ~capturing THEN st
            ELSE IF is_list
                 THEN hset(hset(st, name, item.json),
                           ValueName(name), IntStr(StrInt(last_input) - 1))
                 ELSE hset(hset(st, name, last_input), ValueName(name), last_input)
        \* lines 251-252 and 263-264
        state3 ==
            IF ~capturing THEN state2
            ELSE IF is_list
                 THEN Upd(Upd(state2, name,
                              IF item.structured THEN PJson(item.json)
                              ELSE PStr(item.raw)),
                          ValueName(name), PInt(StrInt(last_input) - 1))
                 ELSE Upd(Upd(state2, name, PStr(last_input)),
                          ValueName(name), PInt(StrInt(last_input) - 1))
        \* lines 273-283
        post == captures /\ Declared(current_step) /\ fq[current_step].post_call
        \* lines 286-294
        next == fq[current_step + 1]
        state4 == Upd(NextFormStep(state3, current_step, last_input),
                      "USSD_RESPONSE_MENU_NAME", PStr(next.name))
        \* lines 313-328
        state_invalid == Upd(Upd(state1, "USSD_VALID_LAST_INPUT", PInt(0)),
                             "USSD_RESPONSE_MENU_NAME", PStr("ERROR"))
        this == fq[current_step]
    IN  IF valid_last_input THEN
            IF captures /\ ~Declared(current_step) THEN
                \* form_questions.get(str(current_step)) is None
                FormResult("AttributeError", <<>>, EmptyPatch, "None", st,
                           verdict, FALSE, FALSE)
            ELSE IF capturing /\ ~is_list /\ last_input = PyNone THEN
                \* redis refuses a None value
                FormResult("DataError", <<>>, EmptyPatch, "None", st,
                           verdict, FALSE, FALSE)
            ELSE IF capturing /\ ~is_list /\ ~IsIntStr(last_input) THEN
                \* line 264: int(last_input)
                FormResult("ValueError", <<>>, EmptyPatch, "None", store3,
                           verdict, TRUE, FALSE)
            ELSE IF ~Declared(current_step + 1) THEN
                \* lines 299-311: FormBackError, or the KeyError raised again
                FormResult(IF current_step <= 0 - 1 THEN "FormBackError" ELSE "KeyError",
                           <<>>, EmptyPatch, "None", store3, verdict, capturing, post)
            ELSE
                FormResult("none",
                           IF next.kind = "ListInput" THEN get_items(next) ELSE next.menu,
                           state4, "True", store3, verdict, capturing, post)
        ELSE
            IF ~Declared(current_step) THEN
                \* line 314: form_questions[str(current_step)]
                FormResult("KeyError", <<>>, EmptyPatch, "None", st,
                           verdict, FALSE, FALSE)
            ELSE
                FormResult("none",
                           IF this.kind = "ListInput"
                           THEN get_invalid_input(Strip4(get_items(this)))
                           ELSE get_invalid_input(this.menu),
                           state_invalid, "False", st, verdict, FALSE, FALSE)

-----------------------------------------------------------------------------
(* NavigationMenu.                                                         *)

\* NavigationMenu._generate_id for a node built with its parent, after its
\* elder siblings: len(parent.children) at that moment
_generate_id(node) ==
    CHOOSE i \in 1..Len(Tree[Tree[node].parent].children) :
        Tree[Tree[node].parent].children[i] = node

\* lines 471-489: the menu of a node with children.  With translation on
\* the titles are dicts and the header is an f-string; with translation off
\* the header is the plain string "CON {self.title}:\n"
menu_string(node, lg) ==
    LET lines == [i \in 1..Len(Tree[node].children) |->
                    IntStr(_generate_id(Tree[node].children[i])) \o ". "
                        \o Tree[Tree[node].children[i]].title]
    IN  IF lg # PyNone
        THEN <<"CON ", Tree[node].title, "\n">> \o JoinLines(lines)
        ELSE <<"CON ", "{self.title}", ":\n">> \o JoinLines(lines)

\* a mutant of line 465: the menu's patch leaves FORM_STEP alone
MenuFormStateKeepsStep(node) ==
    Upd(EmptyPatch, "USSD_RESPONSE_MENU_NAME", PStr(Upper[node]))

\* line 465: the state patch of a node with children
menu_form_state(node) ==
    Upd(Upd(EmptyPatch, "FORM_STEP", PNone),
        "USSD_RESPONSE_MENU_NAME", PStr(Upper[node]))

\* NavigationMenu.get_menu / _generate_menu.  A node with children never
\* assigns valid_last_input, which keeps the None of __init__
get_menu(node, last_input, step, v, x, st, lg) ==
    IF Len(Tree[node].children) = 0
    THEN FormFlow_response(Tree[node].next_form, step, last_input, v, x, st)
    ELSE IF last_input = back_symbol
    THEN FormResult("NavigationBackError", <<>>, EmptyPatch, "None", st,
                    "None", FALSE, FALSE)
    ELSE FormResult("none", menu_string(node, lg), menu_form_state(node), "None", st,
                    "None", FALSE, FALSE)

-----------------------------------------------------------------------------
(* NavigationController.                                                   *)

InvalidChoice == "NavigationInvalidChoice"

\* tuple[i] for a Python index i, negative indices counting from the end;
\* "IndexError" outside the tuple
PyIndex(children, i) ==
    IF 0 <= i /\ i < Len(children) THEN children[i + 1]
    ELSE IF i < 0 /\ 0 - i <= Len(children) THEN children[Len(children) + i + 1]
    ELSE "IndexError"

\* NavigationController.path_navigator over NavigationMenu nodes
RECURSIVE path_navigator(_, _)
path_navigator(start, path) ==
    IF Len(path) = 0 THEN start
    ELSE IF Len(Tree[start].children) = 0 THEN start
    ELSE IF ~IsIntStr(Head(path)) THEN InvalidChoice
    ELSE LET child == PyIndex(Tree[start].children, StrInt(Head(path)) - 1)
         IN  IF child = "IndexError" THEN InvalidChoice
             ELSE path_navigator(child, Tail(path))

MenuResult(exc, resp, st, node, g) ==
    [exc |-> exc, resp |-> resp, store |-> st, node |-> node, valid |-> g.valid,
     verdict |-> g.verdict, captured |-> g.captured, post_called |-> g.post_called]

NotRendered == FormResult("none", <<>>, EmptyPatch, "None", EmptyStore,
                          "None", FALSE, FALSE)

\* a mutant of lines 684-685: a refused input stays on the stored path
RollBackNever(st, pro_path, valid_input) == st

\* lines 684-685
RollBack(st, pro_path, valid_input) ==
    IF valid_input = "False"
    THEN hset(st, "PROCESSED_PATH", json_dumps_path(DropLast(pro_path)))
    ELSE st

\* navigate._menu, lines 684-687: what follows the node's get_menu, g
MenuRendered(pro_path, _menu_ref, g) ==
    IF g.exc # "none"
    THEN MenuResult(g.exc, <<>>, g.store, _menu_ref, g)
    ELSE MenuResult("none", g.resp,
                    _redis_processing(RollBack(g.store, pro_path, g.valid), g.state),
                    _menu_ref, g)

\* a mutant of lines 671-672: the path is stored after the node is
\* rendered, so that a rendering that raises leaves the record as it was
MenuAtWritesLate(st, pro_path, _menu_ref, menu_input, step, v, x, lg) ==
    IF _menu_ref \notin DOMAIN Tree
    THEN MenuResult(_menu_ref, <<>>, st, "none", NotRendered)
    ELSE LET m == MenuRendered(pro_path, _menu_ref,
                      get_menu(_menu_ref, menu_input, step, v, x,
                               hset(hset(st, "PROCESSED_PATH", json_dumps_path(pro_path)),
                                    "USSD_VALID_LAST_INPUT", IntStr(1)),
                               lg))
         IN  IF m.exc # "none" THEN [m EXCEPT !.store = st] ELSE m

\* navigate._menu, lines 671-682: the writes before get_menu, and get_menu
MenuAt(st, pro_path, _menu_ref, menu_input, step, v, x, lg) ==
    IF _menu_ref \notin DOMAIN Tree
    THEN MenuResult(_menu_ref, <<>>, st, "none", NotRendered)
    ELSE MenuRendered(pro_path, _menu_ref,
                      get_menu(_menu_ref, menu_input, step, v, x,
                               hset(hset(st, "PROCESSED_PATH", json_dumps_path(pro_path)),
                                    "USSD_VALID_LAST_INPUT", IntStr(1)),
                               lg))

\* path_navigator from self.home_menu (lines 594-599).  home is home_menu
\* when that is a NavigationMenu; when it is a ConditionalFlow, home is what
\* its get_menu gives in this call: a node, or the exception it raises
WalkFrom(home, path) ==
    IF home \in DOMAIN Tree THEN path_navigator(home, path) ELSE home

\* navigate._menu, line 670: the walk along the normalised path
MenuOn(st, pro_path, home, menu_input, step, v, x, lg) ==
    MenuAt(st, pro_path, WalkFrom(home, pro_path), menu_input, step, v, x, lg)

\* navigate._menu, lines 658-687
_menu(st, path, add_last_input, step, last_input, v, x, lg, offset, home) ==
    MenuOn(st, path_processor(path, offset), home,
           IF add_last_input THEN last_input ELSE PyNone, step, v, x, lg)

\* the replacement fields string.Formatter().parse finds in the prompts of
\* this tree, and the argument name str.format looks up for each
FieldArg == [x \in {"{self.title}", "{Name}"} |->
                IF x = "{Name}" THEN "Name" ELSE "self"]

FieldKey == [x \in {"{self.title}", "{Name}"} |->
                IF x = "{Name}" THEN "Name" ELSE "self.title"]

\* NavigationController.format_response: kwargs holds one key per parsed
\* field name; str.format raises KeyError for an argument name that is no key
format_response(st, resp) ==
    LET found == {resp[i] : i \in 1..Len(resp)} \cap DOMAIN FieldArg
        kwargs == {FieldKey[x] : x \in found}
    IN  IF \E x \in found : FieldArg[x] \notin kwargs
        THEN [exc |-> "KeyError", resp |-> <<>>]
        ELSE [exc |-> "none",
              resp |-> [i \in 1..Len(resp) |->
                          IF resp[i] \in found
                          THEN IF hget(st, FieldKey[resp[i]]) = Absent THEN "None"
                               ELSE hget(st, FieldKey[resp[i]])[1]
                          ELSE resp[i]]]

\* lines 713-716: the last successful response without its frame
LastBody(st) ==
    IF hget(st, "LAST_SUCCESS_RESPONSE") # Absent
          /\ hget(st, "LAST_SUCCESS_RESPONSE")[1] # <<>>
          /\ Head(hget(st, "LAST_SUCCESS_RESPONSE")[1]) \in {"CON ", "END "}
    THEN Strip4(hget(st, "LAST_SUCCESS_RESPONSE")[1])
    ELSE <<>>

\* FormFlow.gather_form_keys
gather_form_keys(form) == {Forms[form][k].name : k \in 1..Len(Forms[form])}

\* the fields the form of a _menu call wrote with set_var (lines 253-262):
\* the name of the step the input was put to, and its _VALUE
CapturedFields(m, step) ==
    IF m.captured
    THEN {Forms[Tree[m.node].next_form][step].name,
          ValueName(Forms[Tree[m.node].next_form][step].name)}
    ELSE {}

\* a read of the session record: the field, the place in navigate, and
\* whether the turn has written the field before this read
Read(field, at, own) == [field |-> field, at |-> at, own |-> own]

\* lines 278-280: post_call's data, one hget per form key, after set_var
PostCallReads(m, step) ==
    IF m.post_called
    THEN {Read(k, "post_call", k \in CapturedFields(m, step)) :
              k \in gather_form_keys(Tree[m.node].next_form)}
    ELSE {}

\* lines 735-738: one hget per replacement field of the response, after
\* every write of the turn
FormatReads(raw, written) ==
    {Read(FieldKey[x], "format", FieldKey[x] \in written) :
         x \in {raw[i] : i \in 1..Len(raw)} \cap DOMAIN FieldKey}

\* the reads of one call of navigate, in the order of the code: FORM_STEP
\* and PROCESSED_PATH before any write (lines 644, 648); post_call's data in
\* the first _menu; PROCESSED_PATH in a back handler (lines 697, 709), after
\* the first _menu wrote it (line 671); post_call's data in the handler's
\* _menu; LAST_SUCCESS_RESPONSE after a refused walk, which wrote nothing
\* (line 714); the replacement fields (line 738)
TurnReads(step, m1, last, raw) ==
    {Read("FORM_STEP", "start", FALSE), Read("PROCESSED_PATH", "start", FALSE)}
        \cup (IF m1.exc = InvalidChoice THEN {} ELSE PostCallReads(m1, step))
        \cup (IF m1.exc \in {"FormBackError", "NavigationBackError"}
              THEN {Read("PROCESSED_PATH", "handler", TRUE)}
                       \cup (IF last.exc = InvalidChoice THEN {}
                             ELSE PostCallReads(last, step))
              ELSE {})
        \cup (IF m1.exc = InvalidChoice
              THEN {Read("LAST_SUCCESS_RESPONSE", "invalid_choice", FALSE)}
              ELSE {})
        \cup (IF m1.exc # InvalidChoice /\ last.exc # "none" THEN {}
              ELSE FormatReads(raw, CapturedFields(m1, step)))

\* what one call of navigate did: m1 is the result of the first _menu, last
\* that of the _menu of an exception handler (m1 itself when none ran),
\* st_end the record when navigate is left, out what format_response made
\* of raw.  exc is the exception that leaves navigate
NavResult(step, m1, last, st_end, raw, out) ==
    [store       |-> st_end,
     exc         |-> IF m1.exc # InvalidChoice /\ last.exc # "none"
                     THEN last.exc ELSE out.exc,
     resp        |-> IF m1.exc # InvalidChoice /\ last.exc # "none"
                     THEN <<>> ELSE out.resp,
     raw         |-> IF m1.exc # InvalidChoice /\ last.exc # "none"
                     THEN <<>> ELSE raw,
     step        |-> step,
     handler     |-> IF m1.exc \in {"FormBackError", "NavigationBackError", InvalidChoice}
                     THEN m1.exc ELSE "none",
     walked      |-> m1.node,
     verdict     |-> m1.verdict,
     captured    |-> m1.captured,
     post_called |-> m1.post_called
                        \/ (m1.exc \in {"FormBackError", "NavigationBackError"}
                                /\ last.post_called),
     rendered    |-> IF m1.exc # InvalidChoice /\ last.exc = "none"
                     THEN last.node ELSE "none",
     valid       |-> IF m1.exc # InvalidChoice /\ last.exc = "none"
                     THEN last.valid ELSE "None",
     validated2  |-> m1.exc \in {"FormBackError", "NavigationBackError"}
                        /\ last.verdict # "None",
     reads       |-> TurnReads(step, m1, last, raw),
     handler_path |-> IF m1.exc \in {"FormBackError", "NavigationBackError"}
                      THEN get_processed_path(m1.store) ELSE <<>>]

\* line 718: resp = self.format_response(resp)
NavFormat(step, m1, last, st_end, raw) ==
    NavResult(step, m1, last, st_end, raw, format_response(st_end, raw))

\* lines 691, 705, 712 (LAST_SUCCESS_RESPONSE after a _menu that returned)
\* and lines 713-716 (NavigationInvalidChoice)
NavEnd(step, m1, last) ==
    NavFormat(step, m1, last,
              IF m1.exc = InvalidChoice
              THEN hset(m1.store, "USSD_VALID_LAST_INPUT", IntStr(0))
              ELSE IF last.exc = "none"
              THEN hset(last.store, "LAST_SUCCESS_RESPONSE", last.resp)
              ELSE last.store,
              IF m1.exc = InvalidChoice
              THEN <<"CON ", "Invalid Choice\n">> \o LastBody(m1.store)
              ELSE last.resp)

\* lines 692-712: the two handlers read the path _menu has just written
\* (stored); FormBackError drops its last token and deletes FORM_STEP
NavHandlers(step, last_input, m1, stored, v2, x2, lg, offset, home2) ==
    NavEnd(step, m1,
           IF m1.exc = "FormBackError"
           THEN _menu(hset(_redis_processing(m1.store,
                                             Upd(EmptyPatch, "FORM_STEP", PNone)),
                           "PROCESSED_PATH", json_dumps_path(DropLast(stored))),
                      DropLast(stored), FALSE, step, last_input, v2, x2, lg, offset,
                      home2)
           ELSE IF m1.exc = "NavigationBackError"
           THEN _menu(hset(m1.store, "PROCESSED_PATH", json_dumps_path(stored)),
                      stored, FALSE, step, last_input, v2, x2, lg, offset, home2)
           ELSE m1)

\* lines 697 and 709: self.get_processed_path() in a handler
NavFirst(step, last_input, m1, v2, x2, lg, offset, home2) ==
    NavHandlers(step, last_input, m1, get_processed_path(m1.store), v2, x2, lg, offset,
                home2)

\* lines 655-656 and 690: the first _menu, on the stored path extended
\* by a non-empty last input
NavStart(st, step, processed_path, last_input, v, x, v2, x2, lg, offset, home, home2) ==
    NavFirst(step, last_input,
             _menu(st,
                   IF last_input # "" THEN Append(processed_path, last_input)
                   ELSE processed_path,
                   TRUE, step, last_input, v, x, lg, offset, home),
             v2, x2, lg, offset, home2)

\* NavigationController.navigate, lines 643-720.  (v, x) is what
\* step_validator returns in the first _menu, (v2, x2) in the _menu of an
\* exception handler; home and home2 are where the walk of the first and of
\* the handler's _menu starts
navigate(st, last_input, v, x, v2, x2, lg, offset, home, home2) ==
    NavStart(st,
             IF hget(st, "FORM_STEP") = Absent THEN 0
             ELSE StrInt(hget(st, "FORM_STEP")[1]),
             get_processed_path(st), last_input, v, x, v2, x2, lg, offset, home, home2)

-----------------------------------------------------------------------------
(* The attributes of a NavigationMenu node that get_menu writes and reads: *)
(* menu_string, form_state (None or a dict) and valid_last_input.          *)

\* NavigationMenu.__init__, lines 437-441
NewNode(node) ==
    [menu_string      |-> IF Tree[node].parent = "none" THEN <<>>
                          ELSE <<"\n", back_symbol, ": BACK  ", home_symbol, ": MAIN MENU">>,
     form_state       |-> Absent,
     valid_last_input |-> "None"]

NewNodes == [node \in DOMAIN Tree |-> NewNode(node)]

NoWalk == [phase |-> "off", start |-> "none", path |-> <<>>, node |-> "none"]

\* the sessions of the isolation harness, as (msisdn, session_id): two of
\* one subscriber, and a second subscriber with the session id of the first
IsoSessions == {<<"254700", "s1">>, <<"254700", "s2">>, <<"254701", "s1">>}

\* a mutant of line 29: the key is the msisdn alone
RedisKeyOfMsisdn(msisdn, session_id) == msisdn

\* BaseUSSD.redis_key (line 29), and the key of get_var / set_var (lines 40,
\* 44): f"{msisdn}:{session_id}"
redis_key(msisdn, session_id) == msisdn \o ":" \o session_id

IsoKeys == {redis_key(s[1], s[2]) : s \in IsoSessions}

NoIso == [redis |-> [k \in IsoKeys |-> EmptyStore],
          alone |-> [s \in IsoSessions |-> EmptyStore],
          order |-> <<>>, resp |-> <<>>, exc |-> "none",
          resp_alone |-> <<>>, exc_alone |-> "none"]

\* the tokens a ussd_string holds before its final one: a choice that is
\* valid in every menu, and the back symbol
EarlierTokens == {"2", back_symbol}

\* the lists of up to n earlier tokens
EarlierInputs(n) == UNION {[1..k -> EarlierTokens] : k \in 0..n}

\* the ussd_strings: what split("*") makes of them, a non-empty list of
\* tokens ("" splits into [""])
UssdStrings ==
    {Append(e, t) : e \in EarlierInputs(UssdMaxLen - 1), t \in Inputs}

\* a mutant of line 646: the first token of ussd_string
UssdFirstToken(ussd_string) == ussd_string[1]

\* navigate, line 646 (and BaseUSSD.__init__, line 32):
\* self.ussd_string.split("*")[-1]
ussd_last_input(ussd_string) == ussd_string[Len(ussd_string)]

NoUssd == [store |-> EmptyStore, twin |-> EmptyStore,
           a |-> <<"">>, b |-> <<"">>, n |-> 0,
           exc |-> "none", exc_twin |-> "none"]

\* the tokens of a shortcode: numbers that are no choice of any menu
ShortcodeTokens == {"9"}

NoOff == [k |-> 0, done |-> 0, n |-> 0,
          store |-> EmptyStore, plain |-> EmptyStore,
          cursor |-> "none", cursor_plain |-> "none",
          exc |-> "none", exc_plain |-> "none", input |-> ""]

\* no node built: the class counter _ids at 0 (line 428)
NoBuild == [count |-> 0, id |-> <<>>, parent |-> <<>>, children |-> <<>>]

NoPatch == [phase |-> "off", st |-> EmptyStore, state |-> EmptyPatch, out |-> EmptyStore]

\* the sessions that may have a turn in progress at the same time
Sessions == {"A", "B"}

NoWorkers == <<>>

\* what a get_menu call holds in its locals, and what it returns
NoRender == [menu_string |-> <<>>, form_state |-> Absent, valid_last_input |-> "None"]

-----------------------------------------------------------------------------
(* The session: one navigate() call per turn, from an empty record.        *)

NoTurn ==
    [input |-> "", said |-> TRUE, extra |-> 0, pre |-> EmptyStore, post |-> EmptyStore,
     cursor |-> "none",
     exc |-> "none", resp |-> <<>>, raw |-> <<>>, step |-> 0, handler |-> "none",
     walked |-> "none", verdict |-> "None", captured |-> FALSE,
     post_called |-> FALSE, rendered |-> "none", valid |-> "None",
     validator_called |-> FALSE, reads |-> {}, handler_path |-> <<>>,
     cond |-> "none", cond2 |-> "none", regular |-> TRUE]

\* said and extra are what step_validator returned in the first _menu of the
\* turn: (True, None) stands for a validator that was not called
TurnOf(last_input, v, x, r) ==
    [input |-> last_input, said |-> r.verdict = "None" \/ v,
     extra |-> IF r.verdict = "None" THEN 0 ELSE x,
     pre |-> store, post |-> r.store, cursor |-> cursor,
     exc |-> r.exc, resp |-> r.resp, raw |-> r.raw, step |-> r.step,
     handler |-> r.handler, walked |-> r.walked, verdict |-> r.verdict,
     captured |-> r.captured, post_called |-> r.post_called,
     rendered |-> r.rendered, valid |-> r.valid,
     validator_called |-> r.verdict # "None" \/ r.validated2,
     reads |-> r.reads, handler_path |-> r.handler_path,
     cond |-> "none", cond2 |-> "none", regular |-> TRUE]

Init ==
    /\ store = EmptyStore
    /\ lang \in {PyNone, "en"}
    /\ turn = NoTurn
    /\ cursor = "none"
    /\ turns = 0
    /\ npath = <<>>
    /\ nout = NoResults
    /\ nphase = "off"
    /\ tree_nodes = NewNodes
    /\ workers = NoWorkers
    /\ walk = NoWalk
    /\ patch = NoPatch
    /\ build = NoBuild
    /\ iso = NoIso
    /\ ussd = NoUssd
    /\ off = NoOff

\* the session so far is regular: every turn had a non-empty last input,
\* returned without raising, and no answer of step_validator held a FORM_STEP
Regular(last_input, x, x2, r) ==
    /\ turn.regular
    /\ last_input # ""
    /\ r.exc = "none"
    /\ r.verdict # "None" => x = 0
    /\ r.validated2 => x2 = 0

\* one call of navigate(offset=None) with any last input and any answers of
\* step_validator
Navigate ==
    /\ nphase = "off"
    /\ turns < MaxTurns
    /\ \E last_input \in Inputs, v \in BOOLEAN, x \in Extras :
         \E r1 \in {navigate(store, last_input, v, x, TRUE, 0, lang, 0,
                                 home_menu, home_menu)} :
             /\ r1.verdict = "None" => (v /\ x = 0)
             /\ \E v2 \in BOOLEAN, x2 \in Extras :
                  \E r \in {IF r1.validated2
                           THEN navigate(store, last_input, v, x, v2, x2, lang, 0,
                                         home_menu, home_menu)
                           ELSE r1} :
                      /\ ~r1.validated2 => (v2 /\ x2 = 0)
                      /\ store' = r.store
                      /\ turn' = [TurnOf(last_input, v, x, r) EXCEPT
                                     !.regular = Regular(last_input, x, x2, r)]
                      /\ cursor' = IF r.rendered # "none" THEN r.rendered ELSE cursor
    /\ turns' = turns + 1
    /\ UNCHANGED <<lang, npath, nout, nphase, tree_nodes, workers, walk, patch, build, iso, ussd, off>>

Next == Navigate

Spec == Init /\ [][Next]_vars

-----------------------------------------------------------------------------
(* The session with a ConditionalFlow as home_menu: every walk starts by   *)
(* asking condition_fxn, whose answer picks the subtree.                   *)

\* ConditionalFlow.condition_result_mapping: two answers with a subtree
condition_result_mapping == [a |-> "r", b |-> "support"]

\* what condition_fxn may do: give a mapped answer, None, a value that is no
\* key, an unhashable value (a list), or raise
CondAnswers == {"a", "b", PyNone, "c", "[1]", "raise"}

\* ConditionalFlow.get_menu / evaluate / verify_result (lines 394-424):
\* ConditionResultError passes through evaluate, every other exception
\* (that of condition_fxn, or the TypeError of `result not in
\* mapping.keys()` for an unhashable result) becomes ConditionEvaluationError
ConditionalFlow_get_menu(c) ==
    IF c = "raise" THEN "ConditionEvaluationError"
    ELSE IF c = PyNone THEN "ConditionResultError"
    ELSE IF c = "[1]" THEN "ConditionEvaluationError"
    ELSE IF c \notin DOMAIN condition_result_mapping THEN "ConditionResultError"
    ELSE condition_result_mapping[c]

\* one call of navigate() with home_menu a ConditionalFlow: c is the answer
\* of condition_fxn in the first _menu, c2 in the _menu of a back handler
CondNavigate ==
    /\ nphase = "off"
    /\ turns < CondMaxTurns
    /\ \E last_input \in Inputs, v \in BOOLEAN, x \in Extras, c \in CondAnswers :
         \E r1 \in {navigate(store, last_input, v, x, TRUE, 0, lang, 0,
                              ConditionalFlow_get_menu(c), ConditionalFlow_get_menu(c))} :
             /\ r1.verdict = "None" => (v /\ x = 0)
             /\ \E c2 \in CondAnswers, v2 \in BOOLEAN, x2 \in Extras :
                  \E r \in {IF r1.handler \in {"FormBackError", "NavigationBackError"}
                           THEN navigate(store, last_input, v, x, v2, x2, lang, 0,
                                         ConditionalFlow_get_menu(c),
                                         ConditionalFlow_get_menu(c2))
                           ELSE r1} :
                      /\ r1.handler \notin {"FormBackError", "NavigationBackError"}
                             => c2 = c
                      /\ ~r.validated2 => (v2 /\ x2 = 0)
                      /\ store' = r.store
                      /\ turn' = [TurnOf(last_input, v, x, r) EXCEPT
                                     !.cond = c,
                                     !.cond2 = IF r.handler \in {"FormBackError",
                                                                 "NavigationBackError"}
                                               THEN c2 ELSE "none"]
                      /\ cursor' = IF r.rendered # "none" THEN r.rendered ELSE cursor
    /\ turns' = turns + 1
    /\ UNCHANGED <<lang, npath, nout, nphase, tree_nodes, workers, walk, patch, build, iso, ussd, off>>

CondNext == CondNavigate

CondSpec == Init /\ [][CondNext]_vars

-----------------------------------------------------------------------------
(* Whole turns of several sessions, one after the other in any order, on   *)
(* one redis: a turn of session (msisdn, session_id) works on the hash     *)
(* redis_key(msisdn, session_id).  Beside it every session is run alone,   *)
(* with the same inputs and the same answers of step_validator.  The      *)
(* sessions are translated ones, whose menus render.                       *)

IsoInit ==
    /\ store = EmptyStore
    /\ lang = "en"
    /\ turn = NoTurn
    /\ cursor = "none"
    /\ turns = 0
    /\ npath = <<>>
    /\ nout = NoResults
    /\ nphase = "off"
    /\ tree_nodes = NewNodes
    /\ workers = NoWorkers
    /\ walk = NoWalk
    /\ patch = NoPatch
    /\ build = NoBuild
    /\ iso = NoIso
    /\ ussd = NoUssd
    /\ off = NoOff

\* the harness after a turn of session s that gave r on the shared redis
\* and ra alone
IsoAfter(s, r, ra) ==
    [redis      |-> [iso.redis EXCEPT ![redis_key(s[1], s[2])] = r.store],
     alone      |-> [iso.alone EXCEPT ![s] = ra.store],
     order      |-> Append(iso.order, s),
     resp       |-> r.resp,
     exc        |-> r.exc,
     resp_alone |-> ra.resp,
     exc_alone  |-> ra.exc]

\* one call of navigate() for session s
IsoNavigate(s) ==
    /\ Len(iso.order) < IsoMaxTurns
    /\ \E last_input \in Inputs, v \in BOOLEAN, x \in Extras :
         \E r1 \in {navigate(iso.redis[redis_key(s[1], s[2])], last_input, v, x,
                              TRUE, 0, lang, 0, home_menu, home_menu)} :
             /\ r1.verdict = "None" => (v /\ x = 0)
             /\ \E v2 \in BOOLEAN, x2 \in Extras :
                  \E r \in {IF r1.validated2
                           THEN navigate(iso.redis[redis_key(s[1], s[2])], last_input,
                                         v, x, v2, x2, lang, 0, home_menu, home_menu)
                           ELSE r1} :
                      /\ ~r1.validated2 => (v2 /\ x2 = 0)
                      /\ \E ra \in {navigate(iso.alone[s], last_input, v, x, v2, x2,
                                              lang, 0, home_menu, home_menu)} :
                             iso' = IsoAfter(s, r, ra)
    /\ UNCHANGED <<store, lang, turn, cursor, turns, npath, nout, nphase, tree_nodes,
                   workers, walk, patch, build, ussd, off>>

IsoNext == \E s \in IsoSessions : IsoNavigate(s)

IsoSpec == IsoInit /\ [][IsoNext]_vars

-----------------------------------------------------------------------------
(* Two turns started from one record, with ussd_strings a and b and the    *)
(* same answers of step_validator: a is one token, b ends in that token    *)
(* after any earlier ones.  The session goes on from the record the turn   *)
(* with a leaves, the record the turn with b leaves is kept beside it.     *)

UssdInit ==
    /\ store = EmptyStore
    /\ lang \in {PyNone, "en"}
    /\ turn = NoTurn
    /\ cursor = "none"
    /\ turns = 0
    /\ npath = <<>>
    /\ nout = NoResults
    /\ nphase = "off"
    /\ tree_nodes = NewNodes
    /\ workers = NoWorkers
    /\ walk = NoWalk
    /\ patch = NoPatch
    /\ build = NoBuild
    /\ iso = NoIso
    /\ ussd = NoUssd
    /\ off = NoOff

UssdNavigate ==
    /\ ussd.n < UssdMaxTurns
    /\ \E a \in [1..1 -> Inputs], v \in BOOLEAN, x \in Extras :
         \E r1 \in {navigate(ussd.store, ussd_last_input(a), v, x, TRUE, 0, lang, 0,
                              home_menu, home_menu)} :
             /\ r1.verdict = "None" => (v /\ x = 0)
             /\ \E v2 \in BOOLEAN, x2 \in Extras :
                  \E r \in {IF r1.validated2
                           THEN navigate(ussd.store, ussd_last_input(a), v, x, v2, x2,
                                         lang, 0, home_menu, home_menu)
                           ELSE r1} :
                      /\ ~r1.validated2 => (v2 /\ x2 = 0)
                      /\ \E b \in {u \in UssdStrings : u[Len(u)] = a[Len(a)]} :
                           \E rb \in {navigate(ussd.store, ussd_last_input(b), v, x,
                                                v2, x2, lang, 0, home_menu, home_menu)} :
                               ussd' = [store |-> r.store, twin |-> rb.store,
                                        a |-> a, b |-> b, n |-> ussd.n + 1,
                                        exc |-> r.exc, exc_twin |-> rb.exc]
    /\ UNCHANGED <<store, lang, turn, cursor, turns, npath, nout, nphase, tree_nodes,
                   workers, walk, patch, build, iso, off>>

UssdNext == UssdNavigate

UssdSpec == UssdInit /\ [][UssdNext]_vars

-----------------------------------------------------------------------------
(* A session driven by navigate(offset=k): its first k inputs are the      *)
(* tokens of the shortcode, then it gets the inputs t1..tn.  Beside it a   *)
(* session driven by navigate(offset=0) gets t1..tn, with the same answers *)
(* of step_validator.                                                      *)

OffInit ==
    /\ store = EmptyStore
    /\ lang \in {PyNone, "en"}
    /\ turn = NoTurn
    /\ cursor = "none"
    /\ turns = 0
    /\ npath = <<>>
    /\ nout = NoResults
    /\ nphase = "off"
    /\ tree_nodes = NewNodes
    /\ workers = NoWorkers
    /\ walk = NoWalk
    /\ patch = NoPatch
    /\ build = NoBuild
    /\ iso = NoIso
    /\ ussd = NoUssd
    /\ off \in {[NoOff EXCEPT !.k = k] : k \in 1..OffsetMax}

\* the node a turn leaves the session at: the one it rendered, if any
OffCursor(r, before) == IF r.rendered # "none" THEN r.rendered ELSE before

\* one of the first k calls of navigate(offset=k): a token of the shortcode
OffShortcode ==
    /\ off.done < off.k
    /\ \E t \in ShortcodeTokens :
         \E r \in {navigate(off.store, t, TRUE, 0, TRUE, 0, lang, off.k,
                             home_menu, home_menu)} :
             off' = [off EXCEPT !.done = @ + 1, !.store = r.store,
                                !.cursor = OffCursor(r, off.cursor),
                                !.exc = r.exc, !.input = t]
    /\ UNCHANGED <<store, lang, turn, cursor, turns, npath, nout, nphase, tree_nodes,
                   workers, walk, patch, build, iso, ussd>>

\* a later call: navigate(offset=k) in the one session and navigate(offset=0)
\* in the other, with the same input
OffNavigate ==
    /\ off.done = off.k
    /\ off.n < OffMaxTurns
    /\ \E t \in Inputs, v \in BOOLEAN, x \in Extras, v2 \in BOOLEAN, x2 \in Extras :
         \E r \in {navigate(off.store, t, v, x, v2, x2, lang, off.k,
                             home_menu, home_menu)} :
             \E rp \in {navigate(off.plain, t, v, x, v2, x2, lang, 0,
                                  home_menu, home_menu)} :
                 off' = [off EXCEPT !.n = @ + 1,
                                    !.store = r.store, !.plain = rp.store,
                                    !.cursor = OffCursor(r, off.cursor),
                                    !.cursor_plain = OffCursor(rp, off.cursor_plain),
                                    !.exc = r.exc, !.exc_plain = rp.exc, !.input = t]
    /\ UNCHANGED <<store, lang, turn, cursor, turns, npath, nout, nphase, tree_nodes,
                   workers, walk, patch, build, iso, ussd>>

OffNext == OffShortcode \/ OffNavigate

OffSpec == OffInit /\ [][OffNext]_vars

-----------------------------------------------------------------------------
(* The normaliser harness.                                                 *)

NormInit ==
    /\ store = EmptyStore
    /\ lang = PyNone
    /\ turn = NoTurn
    /\ cursor = "none"
    /\ turns = 0
    /\ npath \in SeqsUpTo(NormTokens, NormMaxLen)
    /\ nout = NoResults
    /\ nphase = "input"
    /\ tree_nodes = NewNodes
    /\ workers = NoWorkers
    /\ walk = NoWalk
    /\ patch = NoPatch
    /\ build = NoBuild
    /\ iso = NoIso
    /\ ussd = NoUssd
    /\ off = NoOff

Normalise ==
    /\ nphase = "input"
    /\ nout' = [once      |-> _path_process(npath, 1),
                twice     |-> _path_process(_path_process(npath, 1), 1),
                with_back |-> _path_process(Append(npath, back_symbol), 1),
                with_home |-> _path_process(Append(npath, home_symbol), 1)]
    /\ nphase' = "done"
    /\ UNCHANGED <<store, lang, turn, cursor, turns, npath, tree_nodes, workers, walk, patch, build, iso, ussd, off>>

NormNext == Normalise

NormSpec == NormInit /\ [][NormNext]_vars

-----------------------------------------------------------------------------
(* Turns of different sessions running at the same time on one tree: each  *)
(* worker is inside get_menu of a node, which computes the rendering in    *)
(* _generate_menu, assigns it to the node's attributes one by one and      *)
(* returns what the attributes hold.                                       *)

\* the nodes, inputs and steps of the concurrent get_menu calls
RaceNodes == {"r", "sales"}

RaceInputs == {"1", "x"}

RaceSteps == {0, 1}

RaceInit ==
    /\ store = EmptyStore
    /\ lang = "en"
    /\ turn = NoTurn
    /\ cursor = "none"
    /\ turns = 0
    /\ npath = <<>>
    /\ nout = NoResults
    /\ nphase = "off"
    /\ walk = NoWalk
    /\ tree_nodes = NewNodes
    /\ workers \in [Sessions ->
                      [node : RaceNodes, last_input : RaceInputs, step : RaceSteps,
                       v : BOOLEAN, pc : {"call"}, exc : {"none"},
                       local : {NoRender}, returned : {NoRender}]]
    /\ patch = NoPatch
    /\ build = NoBuild
    /\ iso = NoIso
    /\ ussd = NoUssd
    /\ off = NoOff

RaceFrame == UNCHANGED <<store, lang, turn, cursor, turns, npath, nout, nphase, walk, patch, build, iso, ussd, off>>

\* _generate_menu up to its first assignment: get_response of the form
\* (line 454), or the menu of the children; an exception leaves get_menu
Generate(w) ==
    /\ workers # NoWorkers
    /\ workers[w].pc = "call"
    /\ \E g \in {get_menu(workers[w].node, workers[w].last_input, workers[w].step,
                          workers[w].v, 0, EmptyStore, lang)} :
         workers' = [workers EXCEPT
                        ![w].exc = g.exc,
                        ![w].local = IF g.exc = "none"
                                     THEN [menu_string |-> g.resp,
                                           form_state |-> Some(g.state),
                                           valid_last_input |-> g.valid]
                                     ELSE NoRender,
                        ![w].pc = IF g.exc # "none" THEN "done"
                                  ELSE IF IsLeaf(workers[w].node) THEN "menu_string"
                                  ELSE "form_state"]
    /\ UNCHANGED tree_nodes
    /\ RaceFrame

\* self.menu_string = ... (line 456 for a form, lines 486-489 for a menu)
SetMenuString(w) ==
    /\ workers # NoWorkers
    /\ workers[w].pc = "menu_string"
    /\ tree_nodes' = [tree_nodes EXCEPT
                         ![workers[w].node].menu_string = workers[w].local.menu_string]
    /\ workers' = [workers EXCEPT
                      ![w].pc = IF IsLeaf(workers[w].node) THEN "form_state" ELSE "return"]
    /\ RaceFrame

\* self.form_state = ... (line 457 for a form, line 465 for a menu)
SetFormState(w) ==
    /\ workers # NoWorkers
    /\ workers[w].pc = "form_state"
    /\ tree_nodes' = [tree_nodes EXCEPT
                         ![workers[w].node].form_state = workers[w].local.form_state]
    /\ workers' = [workers EXCEPT
                      ![w].pc = IF IsLeaf(workers[w].node) THEN "valid_last_input"
                                ELSE "menu_string"]
    /\ RaceFrame

\* self.valid_last_input = valid (line 458)
SetValidLastInput(w) ==
    /\ workers # NoWorkers
    /\ workers[w].pc = "valid_last_input"
    /\ tree_nodes' = [tree_nodes EXCEPT
                         ![workers[w].node].valid_last_input =
                             workers[w].local.valid_last_input]
    /\ workers' = [workers EXCEPT ![w].pc = "return"]
    /\ RaceFrame

\* return self.menu_string, self.form_state, self.valid_last_input (line 502)
Return(w) ==
    /\ workers # NoWorkers
    /\ workers[w].pc = "return"
    /\ workers' = [workers EXCEPT ![w].returned = tree_nodes[workers[w].node],
                                  ![w].pc = "done"]
    /\ UNCHANGED tree_nodes
    /\ RaceFrame

RaceNext ==
    \E w \in Sessions :
        \/ Generate(w)
        \/ SetMenuString(w)
        \/ SetFormState(w)
        \/ SetValidLastInput(w)
        \/ Return(w)

RaceSpec == RaceInit /\ [][RaceNext]_vars

-----------------------------------------------------------------------------
(* The tree walk on its own: path_navigator from every node, on every      *)
(* token list up to WalkMaxLen.                                            *)

\* longest token list handed to the walker harness
WalkMaxLen == 2

\* head tokens: negative, zero, the choices of the tree, one too many, text
WalkTokens == {"-1", "0", "1", "2", "3", "x"}

WalkInit ==
    /\ store = EmptyStore
    /\ lang = PyNone
    /\ turn = NoTurn
    /\ cursor = "none"
    /\ turns = 0
    /\ npath = <<>>
    /\ nout = NoResults
    /\ nphase = "off"
    /\ tree_nodes = NewNodes
    /\ workers = NoWorkers
    /\ walk \in [phase : {"input"}, start : DOMAIN Tree,
                  path : SeqsUpTo(WalkTokens, WalkMaxLen), node : {"none"}]
    /\ patch = NoPatch
    /\ build = NoBuild
    /\ iso = NoIso
    /\ ussd = NoUssd
    /\ off = NoOff

\* one call of path_navigator(start, path)
Walk ==
    /\ walk.phase = "input"
    /\ walk' = [walk EXCEPT !.phase = "done",
                            !.node = path_navigator(walk.start, walk.path)]
    /\ UNCHANGED <<store, lang, turn, cursor, turns, npath, nout, nphase,
                   tree_nodes, workers, patch, build, iso, ussd, off>>

WalkNext == Walk

WalkSpec == WalkInit /\ [][WalkNext]_vars

-----------------------------------------------------------------------------
(* _redis_processing on its own: every patch over three fields, applied to *)
(* every record that holds or lacks each of them.                          *)

PatchFields == {"FORM_STEP", "Name", "Kind"}

\* one value of every kind _redis_processing tells apart
PatchValues == {PNone, PStr("Ann"), PInt(2), PFloat("1.5"), PBytes("Ann"),
                PJson("{\"label\": \"Bug\"}"), PBool, PUnencodable}

\* the dicts from some of the fields to the values
Patches == UNION {[D -> PatchValues] : D \in SUBSET PatchFields}

\* the records that hold "old" in some of the fields
PatchStores ==
    {[f \in Fields |-> IF f \in D THEN Some("old") ELSE Absent] : D \in SUBSET PatchFields}

PatchInit ==
    /\ store = EmptyStore
    /\ lang = PyNone
    /\ turn = NoTurn
    /\ cursor = "none"
    /\ turns = 0
    /\ npath = <<>>
    /\ nout = NoResults
    /\ nphase = "off"
    /\ tree_nodes = NewNodes
    /\ workers = NoWorkers
    /\ walk = NoWalk
    /\ patch \in [phase : {"input"}, st : PatchStores, state : Patches,
                   out : {EmptyStore}]
    /\ build = NoBuild
    /\ iso = NoIso
    /\ ussd = NoUssd
    /\ off = NoOff

\* one call of _redis_processing(state) on the record st
ApplyPatch ==
    /\ patch.phase = "input"
    /\ patch' = [patch EXCEPT !.phase = "done",
                              !.out = _redis_processing(patch.st, patch.state)]
    /\ UNCHANGED <<store, lang, turn, cursor, turns, npath, nout, nphase,
                   tree_nodes, workers, walk, build, iso, ussd, off>>

PatchNext == ApplyPatch

PatchSpec == PatchInit /\ [][PatchNext]_vars

-----------------------------------------------------------------------------
(* Building a tree: NavigationMenu(...) with or without parent=, and        *)
(* node.parent = p afterwards.  Nodes are numbered in the order they are   *)
(* built; parent 0 is no parent.  count is the state of the class-wide     *)
(* counter NavigationMenu._ids.                                             *)

BuildInit ==
    /\ store = EmptyStore
    /\ lang = PyNone
    /\ turn = NoTurn
    /\ cursor = "none"
    /\ turns = 0
    /\ npath = <<>>
    /\ nout = NoResults
    /\ nphase = "off"
    /\ tree_nodes = NewNodes
    /\ workers = NoWorkers
    /\ walk = NoWalk
    /\ patch = NoPatch
    /\ build = NoBuild
    /\ iso = NoIso
    /\ ussd = NoUssd
    /\ off = NoOff

BuildFrame ==
    UNCHANGED <<store, lang, turn, cursor, turns, npath, nout, nphase, tree_nodes,
                workers, walk, patch, iso, ussd, off>>

\* NodeMixin: node p gets child n at the end of its children
WithChild(children, p, n) ==
    [k \in DOMAIN children |-> IF k = p THEN Append(children[k], n) ELSE children[k]]

\* NavigationMenu.__init__ (lines 430-443) with parent p, or none (p = 0):
\* Node.__init__ attaches the node to its parent, self.id = next(_ids),
\* _generate_id replaces it by len(parent.children) when there is a parent,
\* and self.all_ids = next(_ids) takes another number
Construct(p) ==
    /\ Len(build.id) < MaxNodes
    /\ p \in 0..Len(build.id)
    /\ build' =
           [count    |-> build.count + 2,
            id       |-> Append(build.id,
                                IF p = 0 THEN build.count
                                ELSE Len(build.children[p]) + 1),
            parent   |-> Append(build.parent, p),
            children |-> WithChild(Append(build.children, <<>>), p, Len(build.id) + 1)]
    /\ BuildFrame

\* a is n or one of its ancestors
RECURSIVE IsAncestorOrSelf(_, _)
IsAncestorOrSelf(a, n) ==
    IF n = 0 THEN FALSE
    ELSE IF a = n THEN TRUE
    ELSE IsAncestorOrSelf(a, build.parent[n])

\* n.parent = p for a node built without parent (anytree refuses a loop);
\* no line of NavigationMenu runs, so self.id keeps the counter's number
Attach(n, p) ==
    /\ n \in 1..Len(build.id)
    /\ p \in 1..Len(build.id)
    /\ build.parent[n] = 0
    /\ ~IsAncestorOrSelf(n, p)
    /\ build' = [build EXCEPT !.parent[n] = p,
                              !.children = WithChild(build.children, p, n)]
    /\ BuildFrame

BuildNext ==
    \/ \E p \in 0..MaxNodes : Construct(p)
    \/ \E n \in 1..MaxNodes, p \in 1..MaxNodes : Attach(n, p)

BuildSpec == BuildInit /\ [][BuildNext]_vars

-----------------------------------------------------------------------------
(* Vocabulary of the properties.                                           *)

\* the node is a leaf that hands over to a form
IsFormLeaf(node) == node \in DOMAIN Tree /\ Len(Tree[node].children) = 0

\* the node is a menu with children
IsMenu(node) == node \in DOMAIN Tree /\ Len(Tree[node].children) > 0

\* the tokens that select a node from the root
RECURSIVE PathTo(_)
PathTo(node) ==
    IF Tree[node].parent = "none" THEN <<>>
    ELSE Append(PathTo(Tree[node].parent), IntStr(_generate_id(node)))

\* the form step a turn's input was put to, when the first walk of the turn
\* ended at a form leaf and the input was no back intent
AtStep(kind) ==
    /\ IsFormLeaf(turn.walked)
    /\ turn.verdict # "None"
    /\ turn.step \in 1..Len(Forms[Tree[turn.walked].next_form])
    /\ Forms[Tree[turn.walked].next_form][turn.step].kind = kind

StepOfTurn == Forms[Tree[turn.walked].next_form][turn.step]

\* the last input of the turn was invalid: validation said no, or the walk
\* raised NavigationInvalidChoice
InvalidTurn == turn.verdict = "False" \/ turn.handler = InvalidChoice

-----------------------------------------------------------------------------
(* The claims.                                                             *)

\* C1: after a turn whose last input is invalid (validation false, or the
\* walk raised NavigationInvalidChoice) PROCESSED_PATH is what it was before
\* the turn.
C1_InvalidInputKeepsPath ==
    InvalidTurn => get_processed_path(turn.post) = get_processed_path(turn.pre)

\* C2: with the cursor in a form and the validator not setting FORM_STEP, a
\* turn whose input validates leaves FORM_STEP one greater, and a back
\* intent that stays in the form (the form answers it, raising no
\* FormBackError) leaves it one smaller.
C2_FormStepMovesByOne ==
    (IsFormLeaf(turn.cursor) /\ turn.pre.FORM_STEP # Absent /\ turn.extra = 0) =>
        /\ (turn.verdict = "True" /\ turn.input # back_symbol) =>
               turn.post.FORM_STEP = Some(IntStr(turn.step + 1))
        /\ (turn.input = back_symbol /\ IsFormLeaf(turn.rendered)
                /\ turn.handler = "none") =>
               turn.post.FORM_STEP = Some(IntStr(turn.step - 1))

\* C3: after every turn that rendered a menu with children FORM_STEP is
\* absent from the record, and FORM_STEP is present only while the cursor
\* (the node last rendered) is a form.
C3_FormStepOnlyInForm ==
    /\ IsMenu(turn.rendered) => store.FORM_STEP = Absent
    /\ store.FORM_STEP # Absent => IsFormLeaf(cursor)

\* C3, its case: a turn that left a form for a menu, the record holding a
\* FORM_STEP before it.
C3_Witness ==
    /\ IsMenu(turn.rendered)
    /\ turn.exc = "none"
    /\ turn.pre.FORM_STEP # Absent
    /\ store.FORM_STEP = Absent

\* C4: normalising a normalised path changes nothing.
C4_NormalizeIdempotent ==
    nphase = "done" => nout.twice = nout.once

\* C5: normalising p followed by back_symbol gives normalize(p) without its
\* last token (the empty path when normalize(p) is empty).
C5_NormalizeBackDropsLast ==
    nphase = "done" => nout.with_back = DropLast(nout.once)

\* C6: normalising p followed by home_symbol gives the empty path.
C6_NormalizeHomeIsEmpty ==
    nphase = "done" => nout.with_home = <<>>

\* C7: a turn whose last input is home_symbol returns the root menu and
\* leaves PROCESSED_PATH = [] and FORM_STEP absent.
C7_HomeReturnsRoot ==
    turn.input = home_symbol =>
        /\ turn.exc = "none"
        /\ turn.rendered = home_menu
        /\ Len(turn.resp) > 0
        /\ get_processed_path(store) = <<>>
        /\ store.FORM_STEP = Absent

\* C8: back at step 1 of a form just entered from its parent menu returns
\* the parent's rendering, drops the token that selected the form and leaves
\* FORM_STEP absent; back at the root shows the root again with
\* PROCESSED_PATH = [].
C8_BackLeavesFormForParent ==
    /\ (/\ turn.input = back_symbol
        /\ IsFormLeaf(turn.cursor)
        /\ turn.pre.FORM_STEP = Some(IntStr(1))
        /\ get_processed_path(turn.pre) = PathTo(turn.cursor)) =>
           /\ turn.exc = "none"
           /\ turn.rendered = Tree[turn.cursor].parent
           /\ Len(turn.resp) > 0
           /\ get_processed_path(store) = DropLast(PathTo(turn.cursor))
           /\ store.FORM_STEP = Absent
    /\ (/\ turn.input = back_symbol
        /\ turn.cursor \in {"none", home_menu}
        /\ get_processed_path(turn.pre) = <<>>) =>
           /\ turn.exc = "none"
           /\ turn.rendered = home_menu
           /\ Len(turn.resp) > 0
           /\ get_processed_path(store) = <<>>

\* C9: a plain step with a legal field name whose input the validator
\* accepts: the turn completes, the record holds <name> = last_input and
\* <name>_VALUE = last_input, and the next step's prompt is returned.
C9_PlainStepCapturesInput ==
    (AtStep("str") /\ turn.verdict = "True" /\ LegalName(StepOfTurn.name)) =>
        /\ turn.exc = "none"
        /\ IsFormLeaf(turn.rendered)
        /\ store[StepOfTurn.name] = Some(turn.input)
        /\ store[ValueName(StepOfTurn.name)] = Some(turn.input)

\* C10: a ListInput step given a valid selection i: afterwards the record
\* holds <name> = items[i-1] (its JSON text when the item is structured) and
\* <name>_VALUE = i-1.
C10_ListStepCapturesItem ==
    (AtStep("ListInput") /\ turn.verdict = "True") =>
        LET item == StepOfTurn.items[StrInt(turn.input)]
        IN  /\ store[StepOfTurn.name] =
                   Some(IF item.structured THEN item.json ELSE item.raw)
            /\ store[ValueName(StepOfTurn.name)] = Some(IntStr(StrInt(turn.input) - 1))

\* the fields a form captures into: <name> and <name>_VALUE
FormFields == FieldNames \cup {ValueName(n) : n \in FieldNames}

\* the first walk of the turn ended at a form, whose validation refused the
\* last input
RefusedByForm == IsFormLeaf(turn.walked) /\ turn.verdict = "False"

\* C11: when the input of a form step fails validation, after the turn
\* USSD_VALID_LAST_INPUT is 0, FORM_STEP is what it was before the turn, no
\* form field was written and post_call was not invoked.
C11_InvalidInputLeavesFormAlone ==
    RefusedByForm =>
        /\ turn.post.USSD_VALID_LAST_INPUT = Some(IntStr(0))
        /\ turn.post.FORM_STEP = turn.pre.FORM_STEP
        /\ \A f \in FormFields : turn.post[f] = turn.pre[f]
        /\ ~turn.post_called

\* what navigate answers to an invalid choice from the record st
InvalidChoiceResponse(st) ==
    format_response(st, <<"CON ", "Invalid Choice\n">> \o LastBody(st))

\* C12: when the walk raises NavigationInvalidChoice, navigate returns
\* "CON Invalid Choice\n" followed by the body of the stored
\* LAST_SUCCESS_RESPONSE, sets USSD_VALID_LAST_INPUT to 0 and leaves every
\* other field of the record as it was, so that the next invalid choice gets
\* the same response.
C12_InvalidChoiceRedisplays ==
    turn.handler = InvalidChoice =>
        /\ turn.exc = "none"
        /\ turn.resp = InvalidChoiceResponse(turn.pre).resp
        /\ turn.post.USSD_VALID_LAST_INPUT = Some(IntStr(0))
        /\ \A f \in Fields \ {"USSD_VALID_LAST_INPUT"} : turn.post[f] = turn.pre[f]
        /\ InvalidChoiceResponse(turn.post) = InvalidChoiceResponse(turn.pre)

\* C13: every turn whose last input is an invalid selection or fails form
\* validation (step 0 and a first turn without LAST_SUCCESS_RESPONSE
\* included) returns a "CON" prompt holding the body of the menu offered
\* again: no exception leaves navigate and the body is not empty.
C13_InvalidInputReoffersMenu ==
    InvalidTurn =>
        /\ turn.exc = "none"
        /\ Len(turn.resp) > 2
        /\ Head(turn.resp) = "CON "

\* the last input was put to the last declared step of the form and accepted
AcceptedAtLastStep ==
    /\ IsFormLeaf(turn.walked)
    /\ turn.verdict = "True"
    /\ turn.step = Len(Forms[Tree[turn.walked].next_form])

\* C14: a validated input at the last step N of a form, no step N+1 being
\* declared, makes the turn return the terminal response
\* "END Next step not specified"; nothing is raised.
C14_LastStepEndsSession ==
    AcceptedAtLastStep =>
        /\ turn.exc = "none"
        /\ turn.resp = <<"END ", "Next step not specified">>

\* resp with every replacement field {name} replaced by the record's field
\* name, and by the empty string when the record has no such field
Interpolated(st, resp) ==
    [i \in 1..Len(resp) |->
        IF resp[i] \in DOMAIN FieldKey
        THEN IF hget(st, FieldKey[resp[i]]) = Absent THEN ""
             ELSE hget(st, FieldKey[resp[i]])[1]
        ELSE resp[i]]

\* C15: in the string navigate returns, every {name} placeholder of the
\* rendered response is replaced by the value of the session field name, and
\* by the empty string when the record does not hold that field.
C15_PlaceholdersInterpolated ==
    turn.exc = "none" => turn.resp = Interpolated(turn.post, turn.raw)

\* class Channels: the channel tags
Channels == {"ussd", "whatsapp", "telegram"}

\* what the turn's navigate returns to a front-end of the given channel.
\* NavigationController and BaseUSSD take no channel and nothing reads
\* Channels: the returned string is the same on every channel
ResponseOn(channel) == turn.resp

\* C16: for the same session state and input, the response on the WHATSAPP
\* or TELEGRAM channel is the response on the USSD channel without its first
\* four characters ("CON " / "END ").
C16_ChatChannelsDropFrame ==
    (turn.exc = "none" /\ turn.resp # <<>>) =>
        \A channel \in Channels \ {"ussd"} :
            ResponseOn(channel) = Strip4(ResponseOn("ussd"))

\* C17: turns of different sessions running at the same time on one tree
\* each get the response, the state patch and the validity flag computed for
\* their own session.
C17_ConcurrentTurnsGetTheirOwn ==
    workers # NoWorkers =>
        \A w \in Sessions :
            (workers[w].pc = "done" /\ workers[w].exc = "none") =>
                workers[w].returned = workers[w].local

\* the last input is the back symbol and the first walk of the turn ended at
\* a form
BackInForm == turn.input = back_symbol /\ IsFormLeaf(turn.walked)

\* C18: on a back-intent turn inside a form neither step_validator nor
\* post_call is invoked and no form field (<name>, <name>_VALUE) is written
\* or deleted.
C18_BackTouchesNoField ==
    BackInForm =>
        /\ ~turn.validator_called
        /\ ~turn.post_called
        /\ \A f \in FormFields : turn.post[f] = turn.pre[f]

\* the turn caught a FormBackError of its first walk
FormBackHandled == turn.handler = "FormBackError"

\* C20: when a back intent leaves a form with FormBackError, the controller
\* removes one more token from the stored PROCESSED_PATH, deletes FORM_STEP
\* and returns the rendering of the node at the shortened path, to which the
\* last input is no input (no validation, no capture); FORM_STEP is absent
\* after the turn.
C20_FormBackRendersParent ==
    FormBackHandled =>
        /\ turn.exc = "none"
        /\ get_processed_path(turn.post) =
               DropLast(DropLast(get_processed_path(turn.pre)))
        /\ turn.rendered = path_navigator(home_menu, get_processed_path(turn.post))
        /\ ~turn.validator_called
        /\ \A f \in FormFields : turn.post[f] = turn.pre[f]
        /\ turn.post.FORM_STEP = Absent

\* C19: at a node with children the walk raises NavigationInvalidChoice for
\* every head token that is not an integer in [1, number of children]
\* (text, 0, negative integers, integers above the number of children), and
\* goes on from child t for a token t inside that range.
C19_WalkRefusesOutOfRange ==
    (walk.phase = "done" /\ IsMenu(walk.start) /\ walk.path # <<>>) =>
        IF IsIntStr(Head(walk.path))
              /\ StrInt(Head(walk.path)) \in 1..Len(Tree[walk.start].children)
        THEN walk.node = path_navigator(Tree[walk.start].children[StrInt(Head(walk.path))],
                                        Tail(walk.path))
        ELSE walk.node = InvalidChoice

\* the first walk of the turn ended at a form, which accepted a last input
\* that is no back intent, the validator's extra data holding a FORM_STEP
AcceptedWithStep ==
    /\ IsFormLeaf(turn.walked)
    /\ turn.verdict = "True"
    /\ turn.input # back_symbol
    /\ turn.extra # 0

\* C21: when step_validator accepts a non-back input and its extra data
\* holds FORM_STEP = j, the stored FORM_STEP after the turn is j, not
\* current_step + 1; on a back-intent turn answered by the form the
\* automatic value (one step back) applies.
C21_ValidatorStepWins ==
    /\ AcceptedWithStep => turn.post.FORM_STEP = Some(IntStr(turn.extra))
    /\ (BackInForm /\ turn.handler = "none" /\ IsFormLeaf(turn.rendered)) =>
           turn.post.FORM_STEP = Some(IntStr(turn.step - 1))

\* the last input parses as an integer in [1, number of items of the step]
InItemRange ==
    /\ IsIntStr(turn.input)
    /\ StrInt(turn.input) \in 1..Len(StepOfTurn.items)

PatchKeys(types) == {f \in DOMAIN patch.state : patch.state[f].t \in types}

\* the text redis holds for a str, int, float or bytes value
ScalarText(value) == IF value.t = "int" THEN IntStr(value.i) ELSE value.s

\* C23: applying a state patch deletes exactly the fields mapped to null,
\* sets each field with a string, int, float or bytes value to that value
\* and each field with a map or array value to its JSON encoding, skips the
\* values of unsupported types (and the maps that have no JSON encoding),
\* and leaves every field the patch does not name as it was.
C23_PatchApplied ==
    patch.phase = "done" =>
        /\ {f \in Fields : patch.st[f] # Absent /\ patch.out[f] = Absent}
               = {f \in PatchKeys({"None"}) : patch.st[f] # Absent}
        /\ \A f \in PatchKeys({"None"}) : patch.out[f] = Absent
        /\ \A f \in PatchKeys({"str", "int", "float", "bytes"}) :
               patch.out[f] = Some(ScalarText(patch.state[f]))
        /\ \A f \in PatchKeys({"dict"}) : patch.out[f] = Some(patch.state[f].js)
        /\ \A f \in PatchKeys({"bool", "dict without JSON"}) : patch.out[f] = patch.st[f]
        /\ \A f \in Fields \ DOMAIN patch.state : patch.out[f] = patch.st[f]

\* C23, its case: a patch that deletes a field the record holds and writes
\* an int to another, applied to a record that holds a field the patch does
\* not name.
C23_Witness ==
    /\ patch.phase = "done"
    /\ \E f \in PatchKeys({"None"}) : patch.st[f] # Absent /\ patch.out[f] = Absent
    /\ \E f \in PatchKeys({"int"}) : patch.out[f] = Some("2")
    /\ \E f \in PatchFields \ DOMAIN patch.state : patch.out[f] = Some("old")

\* a back handler of the turn read the stored path (lines 697, 709)
BackHandled == turn.handler \in {"FormBackError", "NavigationBackError"}

\* lines 655-659 with offset None: the normalised candidate path of the turn
CandidatePath ==
    path_processor(IF turn.input # ""
                   THEN Append(get_processed_path(turn.pre), turn.input)
                   ELSE get_processed_path(turn.pre),
                   0)

\* C24 as stated: within one turn no read of the record is of a field the
\* turn has written before, and every read observes the pre-turn value: the
\* path a back handler reads is the path stored before the turn.
C24_NoReadOfOwnWrites ==
    /\ \A rd \in turn.reads : ~rd.own
    /\ BackHandled => turn.handler_path = get_processed_path(turn.pre)

\* C24, amended: the reads at the start of the turn (FORM_STEP,
\* PROCESSED_PATH) and the read of LAST_SUCCESS_RESPONSE after a refused walk
\* observe the pre-turn values; the only reads of fields the turn has
\* written before are the read of PROCESSED_PATH in the FormBackError and
\* NavigationBackError handlers, which gives the normalised candidate path
\* the first _menu stored, and those of post_call's data and of the
\* replacement fields.
C24_OwnWritesReadBack ==
    /\ \A rd \in turn.reads : rd.own => rd.at \in {"handler", "post_call", "format"}
    /\ BackHandled =>
           /\ [field |-> "PROCESSED_PATH", at |-> "handler", own |-> TRUE] \in turn.reads
           /\ turn.handler_path = CandidatePath
    /\ turn.step = IF turn.pre.FORM_STEP = Absent THEN 0
                   ELSE StrInt(turn.pre.FORM_STEP[1])

\* C24, its case: a back intent caught by a handler which read a path other
\* than the one stored before the turn.
C24_Witness ==
    /\ BackHandled
    /\ turn.handler_path # get_processed_path(turn.pre)
    /\ turn.exc = "none"

\* line 475: the number a menu shows before child n, f"{child.id}"
Displayed(n) == build.id[n]

\* line 605: the token t for which children[t - 1] of n's parent is n
TokenOf(n) ==
    CHOOSE t \in 1..Len(build.children[build.parent[n]]) :
        build.children[build.parent[n]][t] = n

\* C25: in every menu the number shown before a child is the child's
\* 1-based position among its parent's children, the token the walk maps to
\* it, whether the parent was given at construction or attached afterwards.
C25_DisplayedIdIsPosition ==
    \A n \in 1..Len(build.id) :
        build.parent[n] # 0 => Displayed(n) = TokenOf(n)

\* "CON " + title + ":" + newline + one line "<id>. <child title>" per child
TitledMenu(node) ==
    <<"CON ", Tree[node].title, ":\n">>
        \o JoinLines([i \in 1..Len(Tree[node].children) |->
                         IntStr(i) \o ". " \o Tree[Tree[node].children[i]].title])

\* the first walk of the turn ended at a menu with children, which was
\* rendered for an input that is no back intent
MenuRenderedFirst == IsMenu(turn.walked) /\ turn.input # back_symbol

\* C26: with translation disabled, rendering a menu with children gives
\* "CON <title>:" and one line "<id>. <child title>" per child in child
\* order, and navigate returns exactly that text (the titles hold no
\* placeholders).
C26_MenuTextUntranslated ==
    (lang = PyNone /\ MenuRenderedFirst) =>
        /\ turn.raw = TitledMenu(turn.walked)
        /\ turn.exc = "none"
        /\ turn.resp = TitledMenu(turn.walked)

\* the normalised candidate path leads from the subtree of the answer to a
\* node, or to a refusal
CondWalk == path_navigator(condition_result_mapping[turn.cond], CandidatePath)

\* C27: a walk that meets a ConditionalFlow continues with the same path at
\* the subtree condition_result_mapping gives for the predicate's answer; an
\* answer that is None or no key of the mapping fails the turn with
\* ConditionResultError, a predicate that raises with
\* ConditionEvaluationError, and a turn failing so has written no field of
\* the record.
C27_ConditionalFlowWalk ==
    turn.cond # "none" =>
        /\ turn.cond \in DOMAIN condition_result_mapping =>
               IF CondWalk = InvalidChoice THEN turn.handler = InvalidChoice
               ELSE turn.walked = CondWalk
        /\ turn.cond \in {PyNone, "c", "[1]"} => turn.exc = "ConditionResultError"
        /\ turn.cond = "raise" => turn.exc = "ConditionEvaluationError"
        /\ turn.exc \in {"ConditionResultError", "ConditionEvaluationError"} =>
               turn.post = turn.pre

\* the path holds neither back_symbol nor home_symbol
CleanPath(path) == \A i \in 1..Len(path) : path[i] \notin {back_symbol, home_symbol}

\* C28: after any sequence of turns from an empty record the stored
\* PROCESSED_PATH holds neither back_symbol nor home_symbol: the path the
\* next turn extends by its one token is clean.
C28_StoredPathIsClean ==
    /\ CleanPath(get_processed_path(store))
    /\ CleanPath(get_processed_path(turn.pre))

\* C28, its case: a completed turn whose last input is the back or the home
\* symbol, put after a stored path that was not empty.
C28_Witness ==
    /\ turn.input \in {back_symbol, home_symbol}
    /\ get_processed_path(turn.pre) # <<>>
    /\ turn.exc = "none"
    /\ Len(get_processed_path(store)) < Len(get_processed_path(turn.pre))

\* the record says the session is at a step of the form of the cursor
InForm == IsFormLeaf(cursor) /\ store.FORM_STEP # Absent

\* C29: in a session whose turns all carried a non-empty last input and
\* returned without raising, the validator never setting FORM_STEP: whenever
\* the cursor is in a form, len(PROCESSED_PATH) is the number of tokens that
\* select the form's leaf plus FORM_STEP - 1; no turn raises FormBackError,
\* and back at step 1 is answered by the parent menu.
C29_PathLengthTracksStep ==
    turn.regular =>
        /\ InForm =>
               Len(get_processed_path(store))
                   = Len(PathTo(cursor)) + StrInt(store.FORM_STEP[1]) - 1
        /\ turn.handler # "FormBackError"
        /\ (turn.input = back_symbol /\ IsFormLeaf(turn.cursor)
                /\ turn.pre.FORM_STEP = Some(IntStr(1))) =>
               /\ turn.rendered = Tree[turn.cursor].parent
               /\ get_processed_path(store) = PathTo(Tree[turn.cursor].parent)
               /\ store.FORM_STEP = Absent

\* C29, its case: a regular session that went two steps into a form.
C29_Witness ==
    /\ turn.regular
    /\ InForm
    /\ store.FORM_STEP = Some(IntStr(2))
    /\ Len(get_processed_path(store)) = Len(PathTo(cursor)) + 1

EndsIn(u) == u[Len(u)]

C32_OffsetSkipsOnce ==
    (off.done = off.k /\ off.n > 0)
        => /\ off.cursor = off.cursor_plain
           /\ off.store["FORM_STEP"] = off.plain["FORM_STEP"]

====
